---- MODULE Spec2Model ----
(***************************************************************************)
(* The frame routes of the bridge (lib/server/routes/frames.js, kept as    *)
(* src/unnamed/part_000): createFrame and addShardToFrame with the private *)
(* _getContractForShard, as a state machine.  Every asynchronous callback  *)
(* of a handler is one action; requests interleave at the callbacks.       *)
(***************************************************************************)
EXTENDS Integers, Sequences, FiniteSets, TLC

\* ---------------------------------------------------------------- bounds
\* largest shard size a request body carries
MaxSize == 2
\* longest exclusion array a request body carries
MaxExclude == 2
\* config.application.freeTier.up.{hourlyBytes,dailyBytes,monthlyBytes}
HourlyBytes == 1
DailyBytes == 2
MonthlyBytes == 3
\* the blacklist maximum a deployment means to enforce
IntendedMaxBlacklist == 1

Reqs == {"r1", "r2"}
\* the pointer _id and the consignment token made for a request: unique to it
Fresh(r) == IF r = "r1" THEN 1 ELSE 2
Users == {"u1", "u2"}
FrameIds == {"f1", "f2"}
Hashes == {"h1", "h2"}
Farmers == {"F1", "F2"}
Indexes == {0, 1}
\* the hashes and indexes a request slot draws from: a hash or an index is
\* only ever compared with another and the store starts empty, so the first
\* slot keeps to one of each and the second meets it with the same or another
HashesOf(r) == IF r = "r1" THEN {"h1"} ELSE Hashes
IndexesOf(r) == IF r = "r1" THEN {0} ELSE Indexes
\* ms('90d'), counted in days
Retention == 90
\* how far the clock moves between two successive readings of Date.now()
Ticks == {0, 1}
\* the first slot reads the clock twice within one tick, the second slot at
\* any of the distances
TicksOf(r) == IF r = "r1" THEN {0} ELSE Ticks
Sizes == 1..MaxSize
\* req.body.challenges.length
Challenges == {2}

\* ------------------------------------------------------------- constants
\* constants.js exports no MAX_BLACKLIST: the property read yields undefined
Undefined == [defined |-> FALSE, value |-> 0]
MAX_BLACKLIST == Undefined

\* JavaScript's  n > x : false when x is undefined (ToNumber gives NaN)
JsGreater(n, x) == x.defined /\ n > x.value

\* -------------------------------------------------------------- helpers
EmptyMap == [x \in {} |-> 0]
Put(m, k, v) == [x \in (DOMAIN m) \cup {k} |-> IF x = k THEN v ELSE m[x]]
Range(s) == {s[i] : i \in DOMAIN s}

NotArray == [isArray |-> FALSE, list |-> <<>>]
ArrayOf(l) == [isArray |-> TRUE, list |-> l]
\* req.body.exclude: absent / not an array, or an array of node ids; the
\* arrays tried are F1, F2, F1, ... cut at every length up to MaxExclude
Nodes(k) == [i \in 1..k |-> IF i % 2 = 1 THEN "F1" ELSE "F2"]
Excludes == {NotArray} \cup {ArrayOf(Nodes(k)) : k \in 0..MaxExclude}

NoBody == [index |-> 0, hash |-> "none", size |-> 0, challenges |-> 0, exclude |-> NotArray]
Bodies == [index : Indexes, hash : Hashes, size : Sizes, challenges : Challenges,
           exclude : Excludes]

\* req.body of request slot r
BodiesOf(r) == {b \in Bodies : b.hash \in HashesOf(r) /\ b.index \in IndexesOf(r)}

\* storj.StorageItem({ hash: hash })
StorageItem(h) == [hash |-> h, contracts |-> EmptyMap, audits |-> EmptyMap, meta |-> EmptyMap]
NoItem == StorageItem("none")

NoPointer == [id |-> 0, index |-> 0, hash |-> "none", size |-> 0]
NoContract ==
  [data_hash |-> "none", data_size |-> 0, store_begin |-> 0, store_end |-> 0,
   audit_count |-> 0, farmer |-> "none"]
NoResponse == [hash |-> "none", token |-> 0, operation |-> "none", farmer |-> "none"]

\* ----------------------------------------------------------------- state
VARIABLES
  rq,            \* per request: position, inputs, closure variables, outcome
  frames,        \* Frame collection: id -> [user, shards]
  pointers,      \* Pointer collection
  store,         \* self.contracts: shard hash -> StorageItem
  bytesUploaded, \* user -> rolling upload byte counters
  entries,       \* BucketEntry collection: [user, frame]
  gone           \* ids of the frames that were removed (an _id is never reused)

vars == <<rq, frames, pointers, store, bytesUploaded, entries, gone>>

Idle == [pc |-> "idle", op |-> "none", user |-> "none", frame |-> "none",
         body |-> NoBody, pointer |-> NoPointer, item |-> NoItem, bl |-> <<>>,
         audit |-> 0, contr |-> NoContract, farmer |-> "none", contract |-> NoContract,
         consign |-> [farmer |-> "none", contract |-> NoContract],
         token |-> 0, shards |-> <<>>,
         error |-> "none", response |-> NoResponse, trace |-> <<>>,
         seen |-> [hour |-> 0, day |-> 0, month |-> 0],
         load |-> "none", saved |-> NoItem, counted |-> FALSE, attached |-> FALSE, sent |-> 0]

\* the counters the users start with: nothing uploaded, or one of the
\* counters past its threshold (hour <= day <= month)
Counters ==
  { [hour |-> 0, day |-> 0, month |-> 0],
    [hour |-> HourlyBytes + 1, day |-> HourlyBytes + 1, month |-> HourlyBytes + 1],
    [hour |-> 0, day |-> DailyBytes + 1, month |-> DailyBytes + 1],
    [hour |-> 0, day |-> 0, month |-> MonthlyBytes + 1] }

Init ==
  /\ rq = [r \in Reqs |-> Idle]
  /\ frames = [f \in {"f1"} |-> [user |-> "u1", shards |-> <<>>]]
  /\ pointers = {}
  /\ store = EmptyMap
  /\ \E c \in Counters : bytesUploaded = [u \in Users |-> c]
  /\ entries = {}
  /\ gone = {}

\* rq with request r changed to record v
Set(r, v) == rq' = [rq EXCEPT ![r] = v]
\* request r ends: next(new errors.<kind>(...))
Fail(q, kind, calls) == [q EXCEPT !.pc = "done", !.error = kind, !.trace = @ \o calls]

\* ------------------------------------------------------------ collaborators
\* User#isUploadRateLimited(hourlyB, dailyB, monthlyB) on counters c
isUploadRateLimited(c, hourlyB, dailyB, monthlyB) ==
  c.hour > hourlyB \/ c.day > dailyB \/ c.month > monthlyB

\* User#recordUploadBytes(size) on counters c
recordUploadBytes(c, size) ==
  [hour |-> c.hour + size, day |-> c.day + size, month |-> c.month + size]

\* network.getStorageOffer(contr, bl): the offers the network may call back with
getStorageOffer(contr, bl) ==
  {[farmer |-> f, contract |-> [contr EXCEPT !.farmer = f]] : f \in Farmers \ Range(bl)}

\* Frame#addShard(pointer) on the shard list the frame was read with
addShard(shards, pointer) == Append(shards, pointer.id)

\* ------------------------------------------------------------ createFrame
\* an admission test that hands the monthly threshold in for the daily one
RateLimitedDailyAsMonthly(u) ==
  isUploadRateLimited(bytesUploaded[u], HourlyBytes, MonthlyBytes, MonthlyBytes)

\* the admission test both handlers start with
RateLimited(u) ==
  isUploadRateLimited(bytesUploaded[u], HourlyBytes, DailyBytes, MonthlyBytes)

\* the handler's answer to a rate-limited user
Denied(q) == Fail(q, "TransferRateError", <<"isUploadRateLimited", "analytics.rateLimited">>)

CreateFrame(r) ==
  /\ rq[r].pc = "idle"
  /\ \E u \in Users :
       LET q == [rq[r] EXCEPT !.op = "createFrame", !.user = u, !.seen = bytesUploaded[u]] IN
       Set(r, IF RateLimited(u)
              THEN Denied(q)
              ELSE [q EXCEPT !.pc = "createFrame",
                             !.trace = <<"isUploadRateLimited", "analytics.frameCreated", "Frame.create">>])
  /\ UNCHANGED <<frames, pointers, store, bytesUploaded>>
  /\ UNCHANGED <<entries, gone>>

\* callback of Frame.create
FrameCreated(r) ==
  /\ rq[r].pc = "createFrame"
  /\ \/ /\ Set(r, Fail(rq[r], "InternalError", <<>>))
        /\ UNCHANGED frames
     \/ \E f \in FrameIds \ (DOMAIN frames \cup gone) :
          /\ frames' = Put(frames, f, [user |-> rq[r].user, shards |-> <<>>])
          /\ Set(r, [rq[r] EXCEPT !.pc = "done", !.frame = f, !.sent = @ + 1,
                                  !.trace = @ \o <<"res.send">>])
  /\ UNCHANGED <<pointers, store, bytesUploaded>>
  /\ UNCHANGED <<entries, gone>>

\* -------------------------------------------------------- addShardToFrame
\* Array.isArray(req.body.exclude) && req.body.exclude.length > MAX_BLACKLIST
BlacklistTooLong(b) ==
  b.exclude.isArray /\ JsGreater(Len(b.exclude.list), MAX_BLACKLIST)

\* a blacklist that is dropped on the way to the network
BlacklistDropped(b) == <<>>

\* let bl = Array.isArray(req.body.exclude) ? req.body.exclude : []
Blacklist(b) == IF b.exclude.isArray THEN b.exclude.list ELSE <<>>

\* new storj.Contract({ data_size, data_hash, store_begin, store_end, audit_count });
\* begin and end are the two readings of Date.now() in the object literal
Contract(b, begin, end) ==
  [data_hash |-> b.hash, data_size |-> b.size, store_begin |-> begin,
   store_end |-> end + Retention, audit_count |-> b.challenges, farmer |-> "none"]

\* item.addContract, item.addAuditRecords, item.addMetaData
AddOffer(item, farmer, contract, audit) ==
  [item EXCEPT !.contracts = Put(@, farmer, contract),
               !.audits = Put(@, farmer, audit),
               !.meta = Put(@, farmer, [downloadCount |-> 0])]

\* a response that names the first contract holder of the item instead of the
\* farmer of this negotiation
ResponseFromItem(q) ==
  [hash |-> q.body.hash, token |-> q.token, operation |-> "PUSH",
   farmer |-> CHOOSE f \in DOMAIN q.item.contracts : TRUE]

\* the body of the success response
Response(q) ==
  [hash |-> q.body.hash, token |-> q.token, operation |-> "PUSH", farmer |-> q.farmer]

\* a handler that stores the pointer before it tests admission
AddShardToFramePointerFirst(r) ==
  /\ rq[r].pc = "idle"
  /\ \E u \in Users, f \in FrameIds, b \in BodiesOf(r) :
       LET q == [rq[r] EXCEPT !.op = "addShardToFrame", !.user = u, !.frame = f,
                              !.body = b, !.seen = bytesUploaded[u]] IN
       /\ pointers' = IF RateLimited(u)
                      THEN pointers \cup {[id |-> Fresh(r), index |-> b.index,
                                            hash |-> b.hash, size |-> b.size]}
                      ELSE pointers
       /\ Set(r, IF RateLimited(u)
                 THEN Denied(q)
                 ELSE IF BlacklistTooLong(b)
                 THEN Fail(q, "BadRequestError", <<"isUploadRateLimited">>)
                 ELSE [q EXCEPT !.pc = "findFrame",
                                !.trace = <<"isUploadRateLimited", "Frame.findOne">>])
  /\ UNCHANGED <<frames, store, bytesUploaded>>
  /\ UNCHANGED <<entries, gone>>

\* the synchronous head of the handler: admission, blacklist bound, Frame.findOne
AddShardToFrame(r) ==
  /\ rq[r].pc = "idle"
  /\ \E u \in Users, f \in FrameIds, b \in BodiesOf(r) :
       LET q == [rq[r] EXCEPT !.op = "addShardToFrame", !.user = u, !.frame = f,
                              !.body = b, !.seen = bytesUploaded[u]] IN
       Set(r, IF RateLimited(u)
              THEN Denied(q)
              ELSE IF BlacklistTooLong(b)
              THEN Fail(q, "BadRequestError", <<"isUploadRateLimited">>)
              ELSE [q EXCEPT !.pc = "findFrame",
                             !.trace = <<"isUploadRateLimited", "Frame.findOne">>])
  /\ UNCHANGED <<frames, pointers, store, bytesUploaded>>
  /\ UNCHANGED <<entries, gone>>

\* a lookup of the frame by _id alone
FrameFoundOfAnyUser(r) ==
  LET q == rq[r] IN
  /\ q.pc = "findFrame"
  /\ \/ Set(r, Fail(q, "InternalError", <<>>))
     \/ Set(r, IF q.frame \in DOMAIN frames
               THEN [q EXCEPT !.pc = "createPointer", !.trace = @ \o <<"Pointer.create">>]
               ELSE Fail(q, "NotFoundError", <<>>))
  /\ UNCHANGED <<frames, pointers, store, bytesUploaded>>
  /\ UNCHANGED <<entries, gone>>

\* callback of Frame.findOne({ _id, user })
FrameFound(r) ==
  LET q == rq[r] IN
  /\ q.pc = "findFrame"
  /\ \/ Set(r, Fail(q, "InternalError", <<>>))
     \/ Set(r, IF q.frame \in DOMAIN frames /\ frames[q.frame].user = q.user
               THEN [q EXCEPT !.pc = "createPointer", !.trace = @ \o <<"Pointer.create">>]
               ELSE Fail(q, "NotFoundError", <<>>))
  /\ UNCHANGED <<frames, pointers, store, bytesUploaded>>
  /\ UNCHANGED <<entries, gone>>

\* callback of Pointer.create, then the audit stream and the contract are
\* built and _getContractForShard starts with contracts.load
PointerCreated(r) ==
  LET q == rq[r]
      p == [id |-> Fresh(r), index |-> q.body.index, hash |-> q.body.hash, size |-> q.body.size]
      qp == [q EXCEPT !.pointer = p]
  IN
  /\ q.pc = "createPointer"
  /\ \/ /\ Set(r, Fail(q, "BadRequestError", <<>>))
        /\ UNCHANGED pointers
     \/ /\ pointers' = pointers \cup {p}
        /\ \/ Set(r, Fail(qp, "BadRequestError", <<"AuditStream.fromRecords">>))
           \/ Set(r, Fail(qp, "BadRequestError", <<"AuditStream.fromRecords", "Contract">>))
           \/ \E tick \in TicksOf(r) :
                Set(r, [qp EXCEPT !.pc = "load",
                                !.audit = q.body.challenges,
                                !.contr = Contract(q.body, 0, 0 + tick),
                                !.bl = Blacklist(q.body),
                                !.trace = @ \o <<"AuditStream.fromRecords", "Contract",
                                                 "contracts.load">>])
  /\ UNCHANGED <<frames, store, bytesUploaded>>
  /\ UNCHANGED <<entries, gone>>

\* a load callback that writes the item it made up into the store
LoadedAndKept(r) ==
  LET q == rq[r]
      hash == q.contr.data_hash
  IN
  /\ q.pc = "load"
  /\ \E err \in BOOLEAN :
       /\ hash \notin DOMAIN store => err
       /\ Set(r, [q EXCEPT !.pc = "offer",
                           !.load = IF hash \notin DOMAIN store THEN "notFound"
                                    ELSE IF err THEN "error" ELSE "found",
                           !.item = IF err THEN StorageItem(hash) ELSE store[hash],
                           !.trace = @ \o <<"getStorageOffer">>])
       /\ store' = IF err THEN Put(store, hash, StorageItem(hash)) ELSE store
  /\ UNCHANGED <<frames, pointers, bytesUploaded>>
  /\ UNCHANGED <<entries, gone>>

\* callback of contracts.load, then network.getStorageOffer is asked
Loaded(r) ==
  LET q == rq[r]
      hash == q.contr.data_hash
  IN
  /\ q.pc = "load"
  /\ \E err \in BOOLEAN :
       /\ hash \notin DOMAIN store => err
       /\ Set(r, [q EXCEPT !.pc = "offer",
                           !.load = IF hash \notin DOMAIN store THEN "notFound"
                                    ELSE IF err THEN "error" ELSE "found",
                           !.item = IF err THEN StorageItem(hash) ELSE store[hash],
                           !.trace = @ \o <<"getStorageOffer">>])
  /\ UNCHANGED <<frames, pointers, store, bytesUploaded>>
  /\ UNCHANGED <<entries, gone>>

\* an offer callback that asks the network again when no offer came
OfferedOrAskedAgain(r) ==
  LET q == rq[r] IN
  /\ q.pc = "offer"
  /\ \/ Set(r, [q EXCEPT !.trace = @ \o <<"getStorageOffer">>])
     \/ \E o \in getStorageOffer(q.contr, q.bl) :
          Set(r, [q EXCEPT !.pc = "save",
                           !.farmer = o.farmer,
                           !.contract = o.contract,
                           !.item = AddOffer(q.item, o.farmer, o.contract, q.audit),
                           !.trace = @ \o <<"contracts.save">>])
  /\ UNCHANGED <<frames, pointers, store, bytesUploaded>>
  /\ UNCHANGED <<entries, gone>>

\* callback of network.getStorageOffer, then the item is filled and saved
Offered(r) ==
  LET q == rq[r] IN
  /\ q.pc = "offer"
  /\ \/ Set(r, Fail(q, "ServiceUnavailableError", <<>>))
     \/ \E o \in getStorageOffer(q.contr, q.bl) :
          Set(r, [q EXCEPT !.pc = "save",
                           !.farmer = o.farmer,
                           !.contract = o.contract,
                           !.item = AddOffer(q.item, o.farmer, o.contract, q.audit),
                           !.trace = @ \o <<"contracts.save">>])
  /\ UNCHANGED <<frames, pointers, store, bytesUploaded>>
  /\ UNCHANGED <<entries, gone>>

\* a save callback that goes on to the consignment whatever the save reported
SavedUnchecked(r) ==
  LET q == rq[r]
      go == [q EXCEPT !.pc = "consign",
                      !.consign = [farmer |-> q.farmer, contract |-> q.contract],
                      !.trace = @ \o <<"getConsignmentPointer">>]
  IN
  /\ q.pc = "save"
  /\ \/ /\ Set(r, go)
        /\ UNCHANGED store
     \/ /\ store' = Put(store, q.item.hash, q.item)
        /\ Set(r, [go EXCEPT !.saved = q.item])
  /\ UNCHANGED <<frames, pointers, bytesUploaded>>
  /\ UNCHANGED <<entries, gone>>

\* callback of contracts.save, then network.getConsignmentPointer is asked
Saved(r) ==
  LET q == rq[r] IN
  /\ q.pc = "save"
  /\ \/ /\ Set(r, Fail(q, "ServiceUnavailableError", <<>>))
        /\ UNCHANGED store
     \/ /\ store' = Put(store, q.item.hash, q.item)
        /\ Set(r, [q EXCEPT !.pc = "consign",
                            !.saved = q.item,
                            !.consign = [farmer |-> q.farmer, contract |-> q.contract],
                            !.trace = @ \o <<"getConsignmentPointer">>])
  /\ UNCHANGED <<frames, pointers, bytesUploaded>>
  /\ UNCHANGED <<entries, gone>>

\* callback of network.getConsignmentPointer, then the frame is read again
Consigned(r) ==
  LET q == rq[r] IN
  /\ q.pc = "consign"
  /\ \/ Set(r, Fail(q, "ServiceUnavailableError", <<>>))
     \/ Set(r, [q EXCEPT !.pc = "reload", !.token = Fresh(r),
                         !.trace = @ \o <<"Frame.findOne.populate">>])
  /\ UNCHANGED <<frames, pointers, store, bytesUploaded>>
  /\ UNCHANGED <<entries, gone>>

\* a reload callback that gives up when the bytes cannot be recorded
FrameReloadedRecordFatal(r) ==
  LET q == rq[r] IN
  /\ q.pc = "reload"
  /\ q.frame \in DOMAIN frames
  /\ \/ /\ Set(r, Fail(q, "InternalError", <<"recordUploadBytes">>))
        /\ UNCHANGED bytesUploaded
     \/ /\ bytesUploaded' = [bytesUploaded EXCEPT ![q.user] = recordUploadBytes(@, q.pointer.size)]
        /\ Set(r, [q EXCEPT !.pc = "addShard",
                            !.counted = TRUE,
                            !.shards = frames[q.frame].shards,
                            !.trace = @ \o <<"recordUploadBytes", "frame.addShard">>])
  /\ UNCHANGED <<frames, pointers, store>>
  /\ UNCHANGED <<entries, gone>>

\* callback of the second Frame.findOne: recordUploadBytes, frame.addShard
FrameReloaded(r) ==
  LET q == rq[r] IN
  /\ q.pc = "reload"
  /\ \/ /\ Set(r, Fail(q, "InternalError", <<>>))
        /\ UNCHANGED bytesUploaded
     \/ \E recorded \in BOOLEAN :
          /\ bytesUploaded' =
               IF recorded
               THEN [bytesUploaded EXCEPT ![q.user] = recordUploadBytes(@, q.pointer.size)]
               ELSE bytesUploaded
          /\ Set(r, IF q.frame \in DOMAIN frames
                    THEN [q EXCEPT !.pc = "addShard",
                                   !.counted = recorded,
                                   !.shards = frames[q.frame].shards,
                                   !.trace = @ \o <<"recordUploadBytes", "frame.addShard">>]
                    \* frame is null: frame.addShard throws a TypeError in the callback
                    ELSE [q EXCEPT !.pc = "crashed",
                                   !.counted = recorded,
                                   !.trace = @ \o <<"recordUploadBytes">>])
  /\ UNCHANGED <<frames, pointers, store>>
  /\ UNCHANGED <<entries, gone>>

\* callback of frame.addShard, then the response
ShardAdded(r) ==
  LET q == rq[r] IN
  /\ q.pc = "addShard"
  /\ \/ /\ Set(r, Fail(q, "InternalError", <<>>))
        /\ UNCHANGED frames
     \/ /\ q.frame \in DOMAIN frames
        /\ frames' = [frames EXCEPT ![q.frame].shards = addShard(q.shards, q.pointer)]
        /\ Set(r, [q EXCEPT !.pc = "done", !.attached = TRUE, !.sent = @ + 1,
                            !.response = Response(q),
                            !.trace = @ \o <<"res.send">>])
  /\ UNCHANGED <<pointers, store, bytesUploaded>>
  /\ UNCHANGED <<entries, gone>>

\* -------------------------------------------------------- destroyFrameById
\* the synchronous head of the handler: BucketEntry.findOne({ user, frame })
DestroyFrameById(r) ==
  /\ rq[r].pc = "idle"
  /\ \E u \in Users, f \in FrameIds :
       Set(r, [rq[r] EXCEPT !.op = "destroyFrameById", !.user = u, !.frame = f,
                            !.pc = "findEntry", !.trace = <<"BucketEntry.findOne">>])
  /\ UNCHANGED <<frames, pointers, store, bytesUploaded, entries, gone>>

\* callback of BucketEntry.findOne, then Frame.findOne({ user, _id })
EntryFound(r) ==
  LET q == rq[r] IN
  /\ q.pc = "findEntry"
  /\ \/ Set(r, Fail(q, "InternalError", <<>>))
     \/ Set(r, IF [user |-> q.user, frame |-> q.frame] \in entries
               THEN Fail(q, "BadRequestError", <<>>)
               ELSE [q EXCEPT !.pc = "findOwned", !.trace = @ \o <<"Frame.findOne">>])
  /\ UNCHANGED <<frames, pointers, store, bytesUploaded, entries, gone>>

\* callback of Frame.findOne, then frame.remove
OwnedFound(r) ==
  LET q == rq[r] IN
  /\ q.pc = "findOwned"
  /\ \/ Set(r, Fail(q, "InternalError", <<>>))
     \/ Set(r, IF q.frame \in DOMAIN frames /\ frames[q.frame].user = q.user
               THEN [q EXCEPT !.pc = "remove", !.trace = @ \o <<"frame.remove">>]
               ELSE Fail(q, "NotFoundError", <<>>))
  /\ UNCHANGED <<frames, pointers, store, bytesUploaded, entries, gone>>

\* callback of frame.remove, then res.status(204).end()
Removed(r) ==
  LET q == rq[r] IN
  /\ q.pc = "remove"
  /\ \/ /\ Set(r, Fail(q, "InternalError", <<>>))
        /\ UNCHANGED <<frames, gone>>
     \/ /\ frames' = [f \in (DOMAIN frames) \ {q.frame} |-> frames[f]]
        /\ gone' = gone \cup {q.frame}
        /\ Set(r, [q EXCEPT !.pc = "done", !.sent = @ + 1, !.trace = @ \o <<"res.end">>])
  /\ UNCHANGED <<pointers, store, bytesUploaded, entries>>

\* ------------------------------------------------------ the bucket routes
\* a file entry is made of a staged frame of the user (buckets router)
CreateEntryFromFrame(r) ==
  /\ rq[r].pc = "idle"
  /\ \E u \in Users, f \in DOMAIN frames :
       /\ frames[f].user = u
       /\ entries' = entries \cup {[user |-> u, frame |-> f]}
       /\ Set(r, [rq[r] EXCEPT !.op = "createEntryFromFrame", !.user = u, !.frame = f,
                               !.pc = "done", !.sent = 1,
                               !.trace = <<"BucketEntry.create", "res.send">>])
  /\ UNCHANGED <<frames, pointers, store, bytesUploaded, gone>>

\* ------------------------------------------------------------------ system
Next ==
  \E r \in Reqs :
    \/ CreateFrame(r)
    \/ FrameCreated(r)
    \/ AddShardToFrame(r)
    \/ FrameFound(r)
    \/ PointerCreated(r)
    \/ Loaded(r)
    \/ Offered(r)
    \/ Saved(r)
    \/ Consigned(r)
    \/ FrameReloaded(r)
    \/ ShardAdded(r)
    \/ DestroyFrameById(r)
    \/ EntryFound(r)
    \/ OwnedFound(r)
    \/ Removed(r)
    \/ CreateEntryFromFrame(r)

Spec == Init /\ [][Next]_vars

\* ------------------------------------------------------------ vocabulary
AddShard(r) == rq[r].op = "addShardToFrame" /\ rq[r].pc # "idle"
Called(r, name) == name \in Range(rq[r].trace)
\* the request's save went through: Phase A is committed
Committed(r) == rq[r].saved # NoItem
Holds(h, farmer) == h \in DOMAIN store /\ farmer \in DOMAIN store[h].contracts
\* position of the first call of that name in the request's trace
At(r, name) == CHOOSE i \in DOMAIN rq[r].trace : rq[r].trace[i] = name

\* ------------------------------------------------------------------- C1
\* C1: merge law. When two requests negotiate the same hash concurrently
\* (neither load reported a store error), the network gave them different
\* farmers and both saves went through, the stored item holds both contracts.
C1_MergeLaw ==
  \A r \in Reqs : \A s \in Reqs :
    ( /\ r # s
      /\ Committed(r) /\ Committed(s)
      /\ rq[r].load # "error" /\ rq[s].load # "error"
      /\ rq[r].body.hash = rq[s].body.hash
      /\ rq[r].farmer # rq[s].farmer )
    => (Holds(rq[r].body.hash, rq[r].farmer) /\ Holds(rq[s].body.hash, rq[s].farmer))

\* ------------------------------------------------------------------- C2
\* the counters exceed a threshold once the shard size is added
OverWithShard(c, size) ==
  c.hour + size > HourlyBytes \/ c.day + size > DailyBytes \/ c.month + size > MonthlyBytes

C3_BlacklistBound ==
  \A r \in Reqs :
    ( /\ AddShard(r)
      /\ rq[r].error # "TransferRateError"
      /\ rq[r].body.exclude.isArray
      /\ Len(rq[r].body.exclude.list) > IntendedMaxBlacklist )
    => (rq[r].error = "BadRequestError" /\ rq[r].trace = <<"isUploadRateLimited">>)

\* ------------------------------------------------------------------- C4
\* the request ended because getConsignmentPointer failed
ConsignFailed(r) ==
  /\ rq[r].pc = "done"
  /\ rq[r].trace # <<>>
  /\ rq[r].trace[Len(rq[r].trace)] = "getConsignmentPointer"

\* C4: forward-only commitment. After getStorageOffer and the save succeeded
\* and getConsignmentPointer failed, the request has ended with
\* ServiceUnavailable and the store holds the contract of Phase A, in this
\* and every later state.
C4_ForwardOnly ==
  \A r \in Reqs :
    ConsignFailed(r) =>
      /\ rq[r].error = "ServiceUnavailableError"
      /\ Holds(rq[r].body.hash, rq[r].farmer)
      /\ store[rq[r].body.hash].contracts[rq[r].farmer] = rq[r].contract

\* ------------------------------------------------------------------- C5
\* C5: getConsignmentPointer is called only after this request's save of the
\* item holding the farmer's contract, audit records and metadata succeeded,
\* and with the farmer and contract of this request's offer; never after a
\* failed save.
C5_DurableFirst ==
  \A r \in Reqs :
    Called(r, "getConsignmentPointer") =>
      /\ Committed(r)
      /\ Called(r, "contracts.save")
      /\ At(r, "contracts.save") < At(r, "getConsignmentPointer")
      /\ rq[r].farmer \in DOMAIN rq[r].saved.contracts
      /\ rq[r].saved.contracts[rq[r].farmer] = rq[r].contract
      /\ rq[r].saved.audits[rq[r].farmer] = rq[r].audit
      /\ rq[r].saved.meta[rq[r].farmer] = [downloadCount |-> 0]
      /\ rq[r].consign = [farmer |-> rq[r].farmer, contract |-> rq[r].contract]
      /\ rq[r].contract.farmer = rq[r].farmer

\* one request at the consignment, the other ended by a failed save
C5_Witness ==
  \E r \in Reqs : \E s \in Reqs :
    /\ rq[r].pc = "consign"
    /\ rq[s].pc = "done" /\ rq[s].error = "ServiceUnavailableError"
    /\ Called(s, "contracts.save") /\ ~Called(s, "getConsignmentPointer")

\* ------------------------------------------------------------------- C6
\* C6: a rate-limit denial, in createFrame and in addShardToFrame, is the
\* first thing the handler does and changes nothing: frames, pointers, the
\* negotiation store and the counters stay as they are, nothing is built or
\* called but the rate-limit event, and the request is over.
C6_DenialInert ==
  [][\A r \in Reqs :
       /\ (rq'[r].op \in {"createFrame", "addShardToFrame"} =>
             rq'[r].trace[1] = "isUploadRateLimited")
       /\ (rq[r].pc = "idle" /\ rq'[r].error = "TransferRateError") =>
            /\ UNCHANGED <<frames, pointers, store, bytesUploaded, entries, gone>>
            /\ rq'[r].pc = "done"
            /\ rq'[r].trace = <<"isUploadRateLimited", "analytics.rateLimited">>
            /\ rq'[r].pointer = NoPointer /\ rq'[r].contr = NoContract
            /\ rq'[r].sent = 0
       /\ (rq[r].error = "TransferRateError" => rq'[r] = rq[r])]_vars

\* both handlers have denied a request
C6_Witness ==
  \E r \in Reqs : \E s \in Reqs :
    /\ rq[r].op = "createFrame" /\ rq[r].error = "TransferRateError"
    /\ rq[s].op = "addShardToFrame" /\ rq[s].error = "TransferRateError"

\* ------------------------------------------------------------------- C7
\* C7: after addShardToFrame ended with BadRequest no pointer record of the
\* request remains, and it changed no frame, item or counter.
C7_BadRequestInert ==
  \A r \in Reqs :
    (AddShard(r) /\ rq[r].error = "BadRequestError") =>
      /\ \A p \in pointers : p.id # Fresh(r)
      /\ ~Committed(r) /\ ~rq[r].counted /\ ~rq[r].attached

\* ------------------------------------------------------------------- C8
\* C8: recordUploadBytes is invoked only after this request's frame.addShard
\* succeeded, so a request whose attachment failed left the counters alone.
C8_CountAfterAttach ==
  \A r \in Reqs :
    /\ Called(r, "recordUploadBytes") => rq[r].attached
    /\ (rq[r].pc = "done" /\ rq[r].error = "InternalError" /\ Called(r, "frame.addShard"))
         => ~rq[r].counted

\* ------------------------------------------------------------------- C9
\* C9: the farmer a negotiation adds to the item as contract holder, and the
\* farmer of the response, is never in the exclusion array of the request.
C9_Exclusion ==
  \A r \in Reqs :
    (AddShard(r) /\ rq[r].body.exclude.isArray /\ rq[r].farmer # "none") =>
      /\ rq[r].farmer \notin Range(rq[r].body.exclude.list)
      /\ Committed(r) =>
           /\ rq[r].farmer \in DOMAIN rq[r].saved.contracts
           /\ rq[r].saved.contracts[rq[r].farmer].farmer \notin Range(rq[r].body.exclude.list)
      /\ rq[r].sent > 0 => rq[r].response.farmer \notin Range(rq[r].body.exclude.list)

\* a request that excluded a farmer has answered with another
C9_Witness ==
  \E r \in Reqs :
    /\ AddShard(r) /\ rq[r].sent > 0
    /\ rq[r].body.exclude.isArray /\ Len(rq[r].body.exclude.list) > 0

\* ------------------------------------------------------------------ C10
\* C10: the success response of addShardToFrame is sent in the step that
\* appended the request's pointer to the frame, and carries the request's
\* hash, "PUSH", the farmer of this request's offer and the token of this
\* request's consignment.
C10_Response ==
  [][\A r \in Reqs :
       (rq[r].sent = 0 /\ rq'[r].sent > 0 /\ rq'[r].op = "addShardToFrame") =>
         /\ rq'[r].sent = 1
         /\ rq[r].trace[Len(rq[r].trace)] = "frame.addShard"
         /\ rq[r].pointer.id \in Range(frames'[rq[r].frame].shards)
         /\ rq[r].pointer.id = Fresh(r)
         /\ rq[r].consign.farmer = rq[r].farmer
         /\ rq'[r].response = [hash |-> rq[r].body.hash, token |-> Fresh(r),
                                operation |-> "PUSH", farmer |-> rq[r].farmer]]_vars

\* both requests answered, for the same hash, with different farmers
C10_Witness ==
  \E r \in Reqs : \E s \in Reqs :
    /\ r # s
    /\ rq[r].sent = 1 /\ rq[s].sent = 1
    /\ rq[r].response.hash = rq[s].response.hash
    /\ rq[r].response.farmer # "none" /\ rq[s].response.farmer # "none"
    /\ rq[r].response.farmer # rq[s].response.farmer

\* ------------------------------------------------------------------ C11
\* the request ended because contracts.save failed
SaveFailed(r) ==
  /\ rq[r].pc = "done"
  /\ rq[r].trace # <<>>
  /\ rq[r].trace[Len(rq[r].trace)] = "contracts.save"

\* C11: a failed save of the negotiation store ends the attempt and reaches
\* the client as InternalError, the kind the negotiator produced; only a failed
\* getStorageOffer or getConsignmentPointer is reported as ServiceUnavailable.
C11_KindKept ==
  \A r \in Reqs :
    /\ SaveFailed(r) => rq[r].error = "InternalError"
    /\ (rq[r].pc = "done" /\ rq[r].error = "ServiceUnavailableError") =>
         rq[r].trace[Len(rq[r].trace)] \in {"getStorageOffer", "getConsignmentPointer"}

\* ------------------------------------------------------------------ C12
Destroy(r) == rq[r].op = "destroyFrameById" /\ rq[r].pc # "idle"

\* C12: a frame that a bucket entry references is never removed, and
\* destroyFrameById answers 204 only when it removed a frame no entry
\* references, BadRequest or NotFound only without removing anything.
C12_ReferencedKept ==
  /\ \A e \in entries : e.frame \in DOMAIN frames
  /\ \A r \in Reqs :
       (Destroy(r) /\ rq[r].pc = "done") =>
         /\ rq[r].sent = 1 =>
              (rq[r].frame \in gone /\ \A e \in entries : e.frame # rq[r].frame)
         /\ rq[r].error \in {"BadRequestError", "NotFoundError"} =>
              ~Called(r, "frame.remove")

\* ------------------------------------------------------------------ C13
\* the frame of the request exists and belongs to another user
Foreign(r) ==
  /\ rq[r].op \in {"addShardToFrame", "destroyFrameById"}
  /\ rq[r].frame \in DOMAIN frames
  /\ frames[rq[r].frame].user # rq[r].user

RecordFailed(r) == Called(r, "recordUploadBytes") /\ ~rq[r].counted

\* C14: a failed recordUploadBytes never ends the request: the request goes
\* on to frame.addShard, an error response can only come from frame.addShard,
\* and when frame.addShard succeeds the one success response is sent.
C14_RecordNotFatal ==
  \A r \in Reqs :
    RecordFailed(r) =>
      /\ rq[r].sent <= 1
      /\ rq[r].pc \in {"addShard", "done", "crashed"}
      /\ (rq[r].pc = "done" /\ rq[r].error # "none") =>
           (rq[r].sent = 0 /\ rq[r].trace[Len(rq[r].trace)] = "frame.addShard")
      /\ (rq[r].pc = "done" /\ rq[r].attached) =>
           (rq[r].sent = 1 /\ rq[r].error = "none" /\ rq[r].response = Response(rq[r]))

\* the bytes were not recorded, the pointer is in the frame and the answer sent
C14_Witness ==
  \E r \in Reqs :
    /\ RecordFailed(r) /\ rq[r].sent = 1 /\ rq[r].error = "none"
    /\ rq[r].frame \in DOMAIN frames
    /\ rq[r].pointer.id \in Range(frames[rq[r].frame].shards)

\* ------------------------------------------------------------------ C15
Count(r, name) == Cardinality({i \in DOMAIN rq[r].trace : rq[r].trace[i] = name})

\* C15: within one addShardToFrame request the store load, getStorageOffer,
\* the store save and getConsignmentPointer are each invoked at most once.
C15_NoRetry ==
  \A r \in Reqs :
    \A name \in {"contracts.load", "getStorageOffer", "contracts.save",
                 "getConsignmentPointer"} :
      Count(r, name) <= 1

\* a request ended by a failed offer next to one ended by a failed consignment
C15_Witness ==
  \E r \in Reqs : \E s \in Reqs :
    /\ rq[r].pc = "done" /\ rq[r].trace[Len(rq[r].trace)] = "getStorageOffer"
    /\ ConsignFailed(s) /\ Count(s, "getStorageOffer") = 1

\* ------------------------------------------------------------------ C16
\* C16: the item of a hash only grows: every farmer contract the store holds
\* for a hash is still there after every step.
C16_OnlyGrows ==
  [][\A h \in DOMAIN store :
       /\ h \in DOMAIN store'
       /\ \A f \in DOMAIN store[h].contracts : f \in DOMAIN store'[h].contracts]_vars

\* ------------------------------------------------------------------ C17
\* C17: an addShardToFrame request that is over has exactly one outcome: one
\* success response or one error handed to next.
C17_OneOutcome ==
  \A r \in Reqs :
    (AddShard(r) /\ rq[r].pc \in {"done", "crashed"}) =>
      \/ rq[r].sent = 1 /\ rq[r].error = "none"
      \/ rq[r].sent = 0 /\ rq[r].error # "none"

\* ------------------------------------------------------------------ C18
\* both requests are addShardToFrame on one frame, with different indexes,
\* and both have sent the success response
BothAttached(r, s) ==
  /\ r # s /\ AddShard(r) /\ AddShard(s)
  /\ rq[r].frame = rq[s].frame /\ rq[r].frame \in DOMAIN frames
  /\ rq[r].pointer.index # rq[s].pointer.index
  /\ rq[r].attached /\ rq[r].sent = 1
  /\ rq[s].attached /\ rq[s].sent = 1

\* C18: when two addShardToFrame requests for one frame with different
\* indexes have both ended with the success response, the shard list of the
\* frame holds the pointers of both, whatever the order of their re-reads
\* and appends.
C18_BothKept ==
  \A r \in Reqs : \A s \in Reqs :
    BothAttached(r, s) =>
      {rq[r].pointer.id, rq[s].pointer.id} \subseteq Range(frames[rq[r].frame].shards)

\* ------------------------------------------------------------------ C19
\* the index of the pointer document with the given _id
IndexOf(id) == (CHOOSE p \in pointers : p.id = id).index

\* C19: no shard list of a frame holds two pointers with the same index.
C19_UniqueIndex ==
  \A f \in DOMAIN frames :
    \A i \in DOMAIN frames[f].shards : \A j \in DOMAIN frames[f].shards :
      i # j => IndexOf(frames[f].shards[i]) # IndexOf(frames[f].shards[j])

\* ------------------------------------------------------------------ C20
\* C20: every contract addShardToFrame builds has store_end - store_begin
\* equal to the retention window, also when the clock moves while the
\* contract is built, and audit_count equal to the number of challenges.
C20_Window ==
  \A r \in Reqs :
    (AddShard(r) /\ rq[r].contr # NoContract) =>
      /\ rq[r].contr.store_end - rq[r].contr.store_begin = Retention
      /\ rq[r].contr.audit_count = rq[r].body.challenges

\* ------------------------------------------------------------------ C21
\* the request ended because getStorageOffer reported an error
OfferFailed(r) ==
  /\ AddShard(r) /\ rq[r].pc = "done"
  /\ rq[r].trace[Len(rq[r].trace)] = "getStorageOffer"

\* C21: loading has no side effect. No step of a request between its load
\* and the answer of getStorageOffer changes the store; a load of a hash the
\* store holds no item for yields the empty item of that hash and leaves the
\* hash without an item; a request whose getStorageOffer fails has issued
\* no save.
C21_LoadInert ==
  [][\A r \in Reqs :
       /\ (rq[r].pc \in {"load", "offer"} /\ rq'[r] # rq[r]) => store' = store
       /\ (rq[r].pc = "load" /\ rq'[r] # rq[r]
             /\ rq[r].contr.data_hash \notin DOMAIN store) =>
            /\ rq'[r].item = StorageItem(rq[r].contr.data_hash)
            /\ rq[r].contr.data_hash \notin DOMAIN store'
       /\ (rq[r].pc = "offer" /\ OfferFailed(r)') =>
            /\ ~Called(r, "contracts.save")'
            /\ rq'[r].saved = NoItem]_vars

\* one request loaded a hash without an item and its offer failed; the other
\* then loaded the same hash and got the empty item too; the store is empty
C21_Witness ==
  \E r \in Reqs : \E s \in Reqs :
    /\ OfferFailed(r) /\ rq[r].load = "notFound"
    /\ r # s /\ rq[s].pc = "offer" /\ rq[s].load = "notFound"
    /\ rq[s].contr.data_hash = rq[r].contr.data_hash
    /\ rq[s].item = StorageItem(rq[r].contr.data_hash)
    /\ store = EmptyMap
====
